---- MODULE Spec2Model ----
(***************************************************************************)
(* Model of n3t-R4ng3r.py: a managed network scanner.  main() validates    *)
(* the thread count, builds a NetworkScanner, and run_scan() checks for    *)
(* nmap, runs a ping sweep, fans the live hosts out over a                 *)
(* ThreadPoolExecutor (scan_host), joins, and saves the queued results.    *)
(* A KeyboardInterrupt raised in the main thread unwinds run_scan and the  *)
(* handler in main() calls save_results() again.                           *)
(***************************************************************************)
EXTENDS Integers, Sequences, FiniteSets, TLC

VARIABLES
    threads,          \* args.threads
    target_range,     \* args.range, as [addr, plen]
    total_hosts,      \* self.total_hosts, 0 until the scanner is built
    output_base,      \* self.output_base as characters, <<>> until built
    pc,               \* position of the main thread
    inHandler,        \* TRUE once main() is in its KeyboardInterrupt handler
    exitCode,         \* process exit status, -1 while running
    live_hosts,       \* self.live_hosts
    task,             \* per host task: position of its scan_host call:
                      \* unsubmitted, queued, inc, probe, cleanup, dec, done
    outcome,          \* per host task: what its detailed nmap run returned
    slept,            \* per host task: TRUE once line 114 has slept
    active_scans,     \* self.active_scans
    completed_scans,  \* self.completed_scans
    lock,             \* self.lock: 0 when free, else the task holding it
    loaded,           \* per host task: the counters it read for a += or -=
                      \* in progress, <<>> otherwise
    results_queue,    \* self.results_queue (task ids, FIFO)
    all_results,      \* local list of the running save_results call
    xml, nmap, gnmap, \* contents of the three output files
    save_error,       \* TRUE once "[-] Error saving results" was printed
    saveCalls,        \* history: number of save_results invocations
    drains,           \* history: number of drain loops that ran to the end
    putsSinceDrain,   \* history: results put since the last completed drain
    nmapRuns,         \* history: number of nmap subprocesses started
    recorded,         \* history: task ids in the order they were put
    interrupts,       \* history: number of KeyboardInterrupts delivered
    recAtInt,         \* history: value of recorded at the first interrupt
    nmap_installed,   \* history: how check_nmap_installed ended
    sweep             \* history: how the ping sweep's nmap run ended

vars == <<threads, target_range, total_hosts, output_base, pc, inHandler, exitCode, live_hosts, task,
          outcome, slept, active_scans, completed_scans, lock, loaded,
          results_queue, all_results,
          xml, nmap, gnmap, save_error, saveCalls, drains, putsSinceDrain,
          nmapRuns, recorded, interrupts, recAtInt, nmap_installed, sweep>>

----------------------------------------------------------------------------
(* Bounds and program constants *)

MaxReport == 2        \* longest list of hosts a ping sweep reports
MaxHostBits == 3      \* SweepSpec: shortest prefix is 32 - MaxHostBits

MinThreads == 1
MaxThreads == 200
MaxPrefixLen == 32

\* the content of an output file this run has not written (no address is -1)
Old == <<-1>>

RECURSIVE Pow2(_)
Pow2(n) == IF n = 0 THEN 1 ELSE 2 * Pow2(n - 1)

Min(a, b) == IF a < b THEN a ELSE b

SeqOfLen(S, n) == UNION {[1..k -> S] : k \in 0..n}

BaseAddr == 10 * Pow2(24)   \* 10.0.0.0

----------------------------------------------------------------------------
(* Target resolver: ipaddress.IPv4Network(target_range, strict=False) *)

ValidRange(r) == r.plen >= 0 /\ r.plen <= MaxPrefixLen

NumAddresses(r) == Pow2(MaxPrefixLen - r.plen)

NetworkAddress(r) == r.addr - (r.addr % NumAddresses(r))

BroadcastAddress(r) == NetworkAddress(r) + NumAddresses(r) - 1

\* the addresses lo, lo+1, ..., hi in ascending order
AddrRange(lo, hi) == [i \in 1..(hi - lo + 1) |-> lo + i - 1]

\* variant of hosts() without the /31 and /32 cases
NetworkHostsNoSpecial(r) ==
    AddrRange(NetworkAddress(r) + 1, BroadcastAddress(r) - 1)

\* IPv4Network.hosts(): a /31 yields both addresses, a /32 its one address
NetworkHosts(r) ==
    IF r.plen = MaxPrefixLen - 1
    THEN AddrRange(NetworkAddress(r), BroadcastAddress(r))
    ELSE IF r.plen = MaxPrefixLen
         THEN <<r.addr>>
         ELSE AddrRange(NetworkAddress(r) + 1, BroadcastAddress(r) - 1)

Range(s) == {s[i] : i \in DOMAIN s}

\* str(n) for n >= 0, one character per element
RECURSIVE Dec(_)
Dec(n) ==
    IF n < 10
    THEN <<CHOOSE c \in {"0", "1", "2", "3", "4", "5", "6", "7", "8", "9"} :
             c = ToString(n)>>
    ELSE Dec(n \div 10) \o Dec(n % 10)

Octet(a, k) == (a \div Pow2(8 * k)) % 256

\* the text of the range on the command line: dotted quad, slash, prefix
RangeText(r) ==
    Dec(Octet(r.addr, 3)) \o <<".">> \o Dec(Octet(r.addr, 2)) \o <<".">> \o
    Dec(Octet(r.addr, 1)) \o <<".">> \o Dec(Octet(r.addr, 0)) \o <<"/">> \o
    Dec(r.plen)

\* str.replace(old, new) for one-character old and new
Replace(s, old, new) == [i \in DOMAIN s |-> IF s[i] = old THEN new ELSE s[i]]

\* variant that replaces the dots only
OutputBaseDotsOnly(r) ==
    Replace(RangeText(r), ".", "-") \o <<"-", "n", "e", "t", "w", "o", "r", "k">>

\* lines 51-52: range_clean with "-network" appended
OutputBase(r) ==
    Replace(Replace(RangeText(r), "/", "_"), ".", "-") \o
    <<"-", "n", "e", "t", "w", "o", "r", "k">>

----------------------------------------------------------------------------
(* Inputs *)

\* one below the lowest accepted count, the two lowest, one above the highest
ThreadInputs == {MinThreads - 1, MinThreads, MinThreads + 1, MaxThreads + 1}

\* 10.0.0.1/30, 10.0.0.1/32 and the unparsable 10.0.0.1/33
MainRanges == {[addr |-> BaseAddr + 1, plen |-> p] : p \in {30, 32, 33}}

SweepRanges ==
    {[addr |-> BaseAddr + a, plen |-> p] :
        a \in 0..(Pow2(MaxHostBits) - 1),
        p \in (MaxPrefixLen - MaxHostBits)..MaxPrefixLen}

\* what a detailed nmap run can come back with
OpenOutcomes == {"open_tcp", "open_text"}
ReturnOutcomes == OpenOutcomes \cup {"closed", "nonzero"}
RaiseOutcomes == {"timeout", "error"}
Outcomes == ReturnOutcomes \cup RaiseOutcomes

Running == {"inc", "probe", "cleanup", "dec"}

Tasks == DOMAIN task

----------------------------------------------------------------------------
(* main(), lines 266-272, and NetworkScanner.__init__ *)

\* variant of the check that lets a count of 0 through
ValidThreadsLow(n) == n >= 0 /\ n <= MaxThreads

\* line 268: args.threads < 1 or args.threads > 200 is rejected

ValidThreads(n) == ~(n < MinThreads \/ n > MaxThreads)

\* variant that exits 0 whatever run_scan returned
ExitAlwaysZero(success) == 0

\* line 276: sys.exit(0 if success else 1)

ExitStatus(success) == IF success THEN 0 ELSE 1

Exit(code) ==
    /\ pc' = "exited"
    /\ exitCode' = code

Init ==
    /\ threads \in ThreadInputs
    /\ target_range \in MainRanges
    /\ total_hosts = 0
    /\ output_base = <<>>
    /\ pc = "main"
    /\ inHandler = FALSE
    /\ exitCode = -1
    /\ live_hosts = <<>>
    /\ task = <<>>
    /\ outcome = <<>>
    /\ slept = <<>>
    /\ active_scans = 0
    /\ completed_scans = 0
    /\ lock = 0
    /\ loaded = <<>>
    /\ results_queue = <<>>
    /\ all_results = <<>>
    /\ xml = Old
    /\ nmap = Old
    /\ gnmap = Old
    /\ save_error = FALSE
    /\ saveCalls = 0
    /\ drains = 0
    /\ putsSinceDrain = 0
    /\ nmapRuns = 0
    /\ recorded = <<>>
    /\ interrupts = 0
    /\ recAtInt = <<>>
    /\ nmap_installed = "unknown"
    /\ sweep = "none"

lockVars == <<lock, loaded>>
scanVars == <<task, outcome, slept, active_scans, completed_scans, lockVars,
              results_queue, putsSinceDrain, recorded>>
saveVars == <<all_results, xml, nmap, gnmap, save_error, saveCalls, drains>>
inputVars == <<threads, target_range, total_hosts, output_base>>
intVars == <<interrupts, recAtInt>>

\* lines 268-272: reject the thread count, then build the scanner
Main ==
    /\ pc = "main"
    /\ IF ~ValidThreads(threads) \/ ~ValidRange(target_range)
       THEN Exit(1) /\ UNCHANGED <<total_hosts, output_base>>
       ELSE /\ total_hosts' = NumAddresses(target_range)
            /\ output_base' = OutputBase(target_range)
            /\ pc' = "check_nmap"
            /\ UNCHANGED exitCode
    /\ UNCHANGED <<threads, target_range, inHandler, live_hosts, scanVars, saveVars,
                   nmapRuns, intVars, nmap_installed, sweep>>

\* check_nmap_installed, and run_scan lines 209-210
CheckNmap(res) ==
    /\ pc = "check_nmap"
    /\ nmapRuns' = nmapRuns + 1
    /\ nmap_installed' = res
    /\ IF res = "yes"
       THEN pc' = "ping_sweep" /\ UNCHANGED exitCode
       ELSE IF res = "no"
            THEN Exit(ExitStatus(FALSE))   \* run_scan returns False
            ELSE Exit(1)                   \* main's "except Exception"
    /\ UNCHANGED <<inputVars, inHandler, live_hosts, scanVars, saveVars,
                   intVars, sweep>>

\* the hosts a sweep may report: lists of usable addresses of the range
Reports == SeqOfLen(Range(NetworkHosts(target_range)), MaxReport)

SweepResult(res, report) ==
    IF res = "report" THEN report ELSE NetworkHosts(target_range)

\* variant that goes on to the pool with an empty list
NeverEmpty(hosts) == FALSE

\* line 221: if not self.live_hosts
NoLiveHosts(hosts) == hosts = <<>>

\* ping_sweep, and run_scan lines 219-226
PingSweep(res) ==
    /\ pc = "ping_sweep"
    /\ nmapRuns' = nmapRuns + 1
    /\ sweep' = res
    /\ \E report \in Reports : live_hosts' = SweepResult(res, report)
    /\ IF NoLiveHosts(live_hosts')
       THEN /\ Exit(ExitStatus(FALSE))
            /\ UNCHANGED <<task, outcome, slept, loaded>>
       ELSE /\ pc' = "submit"
            /\ task' = [i \in DOMAIN live_hosts' |-> "unsubmitted"]
            /\ outcome' = [i \in DOMAIN live_hosts' |-> "pending"]
            /\ slept' = [i \in DOMAIN live_hosts' |-> FALSE]
            /\ loaded' = [i \in DOMAIN live_hosts' |-> <<>>]
            /\ UNCHANGED exitCode
    /\ UNCHANGED <<inputVars, inHandler, active_scans, completed_scans, lock,
                   results_queue, putsSinceDrain, recorded, saveVars,
                   intVars, nmap_installed>>

----------------------------------------------------------------------------
(* run_scan lines 228-236: the worker pool *)

\* variant with one worker per live host, whatever the thread limit
WorkersAsHosts == Len(live_hosts)

\* ThreadPoolExecutor(max_workers=min(self.max_threads, len(self.live_hosts)))
MaxWorkers == Min(threads, Len(live_hosts))

NumRunning == Cardinality({t \in Tasks : task[t] \in Running})

mainVars == <<pc, inHandler, exitCode>>

\* executor.submit(self.scan_host, host), one host per step, in list order
Submit ==
    /\ pc = "submit"
    /\ \E t \in Tasks :
          /\ task[t] = "unsubmitted"
          /\ \A u \in Tasks : u < t => task[u] # "unsubmitted"
          /\ task' = [task EXCEPT ![t] = "queued"]
          /\ pc' = IF t = Len(task) THEN "join" ELSE "submit"
    /\ UNCHANGED <<inputVars, inHandler, exitCode, live_hosts, outcome, slept,
                   active_scans, completed_scans, lockVars, results_queue,
                   putsSinceDrain, recorded, saveVars, nmapRuns, intVars,
                   nmap_installed, sweep>>

\* variant without mutual exclusion: the with block is entered at once
NoLock(holder) == TRUE

\* threading.Lock: acquire blocks until no thread holds the lock
LockFree(holder) == holder = 0

\* entry of a "with self.lock" block by task t, which then reads the counters
Acquire(t) ==
    /\ LockFree(lock)
    /\ lock' = t
    /\ loaded' = [loaded EXCEPT ![t] = <<active_scans, completed_scans>>]

\* variant that leaves the block without giving the lock back
KeepLock(t) ==
    /\ lock' = lock
    /\ loaded' = [loaded EXCEPT ![t] = <<>>]

\* exit of the "with self.lock" block
Release(t) ==
    /\ lock' = IF lock = t THEN 0 ELSE lock
    /\ loaded' = [loaded EXCEPT ![t] = <<>>]

\* a free worker takes the oldest queued work item; scan_host line 95:
\* it enters the lock and reads active_scans
StartScan(t) ==
    /\ task[t] = "queued"
    /\ \A u \in Tasks : u < t => task[u] # "queued"
    /\ NumRunning < MaxWorkers
    /\ Acquire(t)
    /\ task' = [task EXCEPT ![t] = "inc"]
    /\ UNCHANGED <<inputVars, mainVars, live_hosts, outcome, slept,
                   active_scans, completed_scans, results_queue,
                   putsSinceDrain, recorded, saveVars, nmapRuns, intVars,
                   nmap_installed, sweep>>

\* lines 96-109: store active_scans + 1, leave the lock and start nmap
CountActive(t) ==
    /\ task[t] = "inc"
    /\ active_scans' = loaded[t][1] + 1
    /\ Release(t)
    /\ task' = [task EXCEPT ![t] = "probe"]
    /\ nmapRuns' = nmapRuns + 1
    /\ UNCHANGED <<inputVars, mainVars, live_hosts, outcome, slept,
                   completed_scans, results_queue, putsSinceDrain, recorded,
                   saveVars, intVars, nmap_installed, sweep>>

\* variant that records every run that returned, open ports or not
RecordsAnyReturn(o) == o \in ReturnOutcomes

\* line 111: result.returncode == 0 and 'open' in result.stdout.lower()
HasOpen(o) == o \in OpenOutcomes

\* line 109 returns or raises; lines 111-112 and process_scan_result line 153
\* put (host_ip, output) on the queue when the run succeeded with 'open' in
\* its output, and line 114 sleeps; lines 116-119 catch what was raised,
\* which skips both
ProbeReturn(t, o) ==
    /\ task[t] = "probe"
    /\ outcome' = [outcome EXCEPT ![t] = o]
    /\ slept' = [slept EXCEPT ![t] = o \in ReturnOutcomes]
    /\ task' = [task EXCEPT ![t] = "cleanup"]
    /\ IF o \in ReturnOutcomes /\ HasOpen(o)
       THEN /\ results_queue' = Append(results_queue, t)
            /\ recorded' = Append(recorded, t)
            /\ putsSinceDrain' = putsSinceDrain + 1
       ELSE UNCHANGED <<results_queue, recorded, putsSinceDrain>>
    /\ UNCHANGED <<inputVars, mainVars, live_hosts, active_scans,
                   completed_scans, lockVars, saveVars, nmapRuns, intVars,
                   nmap_installed, sweep>>

\* variant with the increment in the try body instead of the finally block
CompletedOnReturn(c, o) == IF o \in RaiseOutcomes THEN c ELSE c + 1

\* line 123: self.completed_scans += 1, whatever the outcome o
CompletedAfter(c, o) == c + 1

\* lines 120-121: the finally block enters the lock and reads the counters
EnterFinally(t) ==
    /\ task[t] = "cleanup"
    /\ Acquire(t)
    /\ task' = [task EXCEPT ![t] = "dec"]
    /\ UNCHANGED <<inputVars, mainVars, live_hosts, outcome, slept,
                   active_scans, completed_scans, results_queue,
                   putsSinceDrain, recorded, saveVars, nmapRuns, intVars,
                   nmap_installed, sweep>>

\* lines 122-123: store both counters and leave the lock
Cleanup(t) ==
    /\ task[t] = "dec"
    /\ active_scans' = loaded[t][1] - 1
    /\ completed_scans' = CompletedAfter(loaded[t][2], outcome[t])
    /\ Release(t)
    /\ task' = [task EXCEPT ![t] = "done"]
    /\ UNCHANGED <<inputVars, mainVars, live_hosts, outcome, slept,
                   results_queue, putsSinceDrain, recorded, saveVars,
                   nmapRuns, intVars, nmap_installed, sweep>>

\* variant in which the first task that raised ends the wait
PoolIdleFirstFailure ==
    \/ \A t \in Tasks : task[t] \in {"unsubmitted", "done"}
    \/ \E t \in Tasks : task[t] = "done" /\ outcome[t] \in RaiseOutcomes

\* every submitted task has finished
PoolIdle == \A t \in Tasks : task[t] \in {"unsubmitted", "done"}

\* save_results line 158-160: entry, with a fresh all_results
EnterSave ==
    /\ pc' = "drain"
    /\ all_results' = <<>>
    /\ saveCalls' = saveCalls + 1

\* lines 231-238: as_completed has yielded every future, the with block is
\* left and save_results is called
Join ==
    /\ pc = "join"
    /\ PoolIdle
    /\ EnterSave
    /\ UNCHANGED <<inputVars, inHandler, exitCode, live_hosts, scanVars, xml,
                   nmap, gnmap, save_error, drains, nmapRuns, intVars,
                   nmap_installed, sweep>>

----------------------------------------------------------------------------
(* save_results *)

HostOf(t) == live_hosts[t]

HostsOf(res) == [i \in DOMAIN res |-> HostOf(res[i])]

\* lines 191-199: a host gets its gnmap lines when its output has a line
\* that starts with <digits>/tcp and contains 'open'
HasTcpPorts(t) == outcome[t] = "open_tcp"

\* save_results returns: to run_scan line 240, or to main line 281
SaveReturn ==
    IF inHandler
    THEN Exit(1)
    ELSE pc' = "finish" /\ UNCHANGED exitCode

\* variant of the loop test that stops after the first get ("if" for "while")
StopAfterOne(q, got) == q = <<>> \/ got # <<>>

\* line 161: the loop ends when self.results_queue.empty()
DrainDone(q, got) == q = <<>>

\* variant that goes on to the writes with an empty list
AlwaysSomething(res) == FALSE

\* line 164: if not all_results
NothingToSave(res) == res = <<>>

\* lines 161-166: one turn of the drain loop, or its end and the empty check
Drain ==
    /\ pc = "drain"
    /\ IF ~DrainDone(results_queue, all_results)
       THEN /\ all_results' = Append(all_results, Head(results_queue))
            /\ results_queue' = Tail(results_queue)
            /\ UNCHANGED <<pc, exitCode, drains, putsSinceDrain>>
       ELSE /\ drains' = drains + 1
            /\ putsSinceDrain' = 0
            /\ IF NothingToSave(all_results)
               THEN SaveReturn
               ELSE pc' = "write_xml" /\ UNCHANGED exitCode
            /\ UNCHANGED <<all_results, results_queue>>
    /\ UNCHANGED <<inputVars, inHandler, live_hosts, task, outcome, slept,
                   active_scans, completed_scans, lockVars, recorded, xml,
                   nmap, gnmap, save_error, saveCalls, nmapRuns, intVars,
                   nmap_installed, sweep>>

\* a write that raises is caught at line 204 and ends save_results
SaveFailed ==
    /\ save_error' = TRUE
    /\ SaveReturn

\* lines 169-176
WriteXml(ok) ==
    /\ pc = "write_xml"
    /\ IF ok
       THEN /\ xml' = HostsOf(all_results)
            /\ pc' = "write_nmap"
            /\ UNCHANGED <<exitCode, save_error>>
       ELSE /\ SaveFailed
            /\ UNCHANGED xml
    /\ UNCHANGED <<inputVars, inHandler, live_hosts, scanVars, all_results,
                   nmap, gnmap, saveCalls, drains, nmapRuns, intVars,
                   nmap_installed, sweep>>

\* lines 179-187
WriteNmap(ok) ==
    /\ pc = "write_nmap"
    /\ IF ok
       THEN /\ nmap' = HostsOf(all_results)
            /\ pc' = "write_gnmap"
            /\ UNCHANGED <<exitCode, save_error>>
       ELSE /\ SaveFailed
            /\ UNCHANGED nmap
    /\ UNCHANGED <<inputVars, inHandler, live_hosts, scanVars, all_results,
                   xml, gnmap, saveCalls, drains, nmapRuns, intVars,
                   nmap_installed, sweep>>

\* lines 189-202
WriteGnmap(ok) ==
    /\ pc = "write_gnmap"
    /\ IF ok
       THEN /\ gnmap' = HostsOf(SelectSeq(all_results, HasTcpPorts))
            /\ SaveReturn
            /\ UNCHANGED save_error
       ELSE /\ SaveFailed
            /\ UNCHANGED gnmap
    /\ UNCHANGED <<inputVars, inHandler, live_hosts, scanVars, all_results,
                   xml, nmap, saveCalls, drains, nmapRuns, intVars,
                   nmap_installed, sweep>>

\* run_scan lines 240-245 return True, main line 276 exits
Finish ==
    /\ pc = "finish"
    /\ Exit(ExitStatus(TRUE))
    /\ UNCHANGED <<inputVars, inHandler, live_hosts, scanVars, saveVars,
                   nmapRuns, intVars, nmap_installed, sweep>>

----------------------------------------------------------------------------
(* KeyboardInterrupt in the main thread *)

Interrupted ==
    /\ interrupts' = interrupts + 1
    /\ recAtInt' = IF interrupts = 0 THEN recorded ELSE recAtInt

\* main lines 277-280: the handler calls save_results
EnterHandler ==
    /\ inHandler' = TRUE
    /\ EnterSave

\* raised before the pool exists: it propagates straight to main's handler
InterruptEarly ==
    /\ pc \in {"check_nmap", "ping_sweep"}
    /\ Interrupted
    /\ EnterHandler
    /\ UNCHANGED <<inputVars, exitCode, live_hosts, scanVars, xml, nmap,
                   gnmap, save_error, drains, nmapRuns, nmap_installed,
                   sweep>>

\* raised inside the with block (lines 229-236): ThreadPoolExecutor.__exit__
\* runs shutdown(wait=True) before the exception leaves run_scan
InterruptScan ==
    /\ pc \in {"submit", "join"}
    /\ Interrupted
    /\ pc' = "unwind"
    /\ UNCHANGED <<inputVars, inHandler, exitCode, live_hosts, scanVars,
                   saveVars, nmapRuns, nmap_installed, sweep>>

\* shutdown(wait=True) has joined every worker: the exception reaches main
Unwind ==
    /\ pc = "unwind"
    /\ PoolIdle
    /\ EnterHandler
    /\ UNCHANGED <<inputVars, exitCode, live_hosts, scanVars, xml, nmap,
                   gnmap, save_error, drains, nmapRuns, intVars,
                   nmap_installed, sweep>>

\* a further interrupt while shutdown is joining the workers ends the join
InterruptUnwind ==
    /\ pc = "unwind"
    /\ Interrupted
    /\ EnterHandler
    /\ UNCHANGED <<inputVars, exitCode, live_hosts, scanVars, xml, nmap,
                   gnmap, save_error, drains, nmapRuns, nmap_installed,
                   sweep>>

SavePcs == {"drain", "write_xml", "write_nmap", "write_gnmap"}

\* raised in run_scan's own save_results or after it (lines 238-245)
InterruptSave ==
    /\ pc \in SavePcs \cup {"finish"}
    /\ ~inHandler
    /\ Interrupted
    /\ EnterHandler
    /\ UNCHANGED <<inputVars, exitCode, live_hosts, scanVars, xml, nmap,
                   gnmap, save_error, drains, nmapRuns, nmap_installed,
                   sweep>>

\* raised inside the handler: nothing catches it, the interpreter exits
\* with 1 or with the SIGINT status, depending on its version
InterruptHandler(code) ==
    /\ pc \in SavePcs
    /\ inHandler
    /\ Interrupted
    /\ Exit(code)
    /\ UNCHANGED <<inputVars, inHandler, live_hosts, scanVars, saveVars,
                   nmapRuns, nmap_installed, sweep>>

----------------------------------------------------------------------------

Next ==
    \/ Main
    \/ \E res \in {"yes", "no", "oserror"} : CheckNmap(res)
    \/ \E res \in {"report", "timeout", "failed"} : PingSweep(res)
    \/ Submit
    \/ \E t \in Tasks : StartScan(t)
    \/ \E t \in Tasks : CountActive(t)
    \/ \E t \in Tasks : \E o \in Outcomes : ProbeReturn(t, o)
    \/ \E t \in Tasks : EnterFinally(t)
    \/ \E t \in Tasks : Cleanup(t)
    \/ Join
    \/ Drain
    \/ \E ok \in BOOLEAN : WriteXml(ok)
    \/ \E ok \in BOOLEAN : WriteNmap(ok)
    \/ \E ok \in BOOLEAN : WriteGnmap(ok)
    \/ Finish
    \/ InterruptEarly
    \/ InterruptScan
    \/ Unwind
    \/ InterruptUnwind
    \/ InterruptSave
    \/ \E code \in {1, 130} : InterruptHandler(code)

Spec == Init /\ [][Next]_vars

----------------------------------------------------------------------------
(* The discovery stage on its own: run_scan is about to call ping_sweep on   *)
(* a range drawn from SweepRanges                                            *)

SweepInit ==
    /\ threads = MinThreads
    /\ target_range \in SweepRanges
    /\ total_hosts = NumAddresses(target_range)
    /\ output_base = OutputBase(target_range)
    /\ pc = "ping_sweep"
    /\ inHandler = FALSE
    /\ exitCode = -1
    /\ live_hosts = <<>>
    /\ task = <<>>
    /\ outcome = <<>>
    /\ slept = <<>>
    /\ active_scans = 0
    /\ completed_scans = 0
    /\ lock = 0
    /\ loaded = <<>>
    /\ results_queue = <<>>
    /\ all_results = <<>>
    /\ xml = Old
    /\ nmap = Old
    /\ gnmap = Old
    /\ save_error = FALSE
    /\ saveCalls = 0
    /\ drains = 0
    /\ putsSinceDrain = 0
    /\ nmapRuns = 1
    /\ recorded = <<>>
    /\ interrupts = 0
    /\ recAtInt = <<>>
    /\ nmap_installed = "yes"
    /\ sweep = "none"

SweepNext == \E res \in {"report", "timeout", "failed"} : PingSweep(res)

SweepSpec == SweepInit /\ [][SweepNext]_vars

----------------------------------------------------------------------------
(* A run without KeyboardInterrupt under fair scheduling: the main thread   *)
(* keeps running while it can, and so does every worker, whose nmap run     *)
(* eventually returns or raises                                             *)

\* no live-host list is longer than a report or the fallback of a /30
TaskIds == 1..(MaxReport + 2)

MainStep ==
    \/ Main
    \/ \E res \in {"yes", "no", "oserror"} : CheckNmap(res)
    \/ \E res \in {"report", "timeout", "failed"} : PingSweep(res)
    \/ Submit
    \/ Join
    \/ Drain
    \/ \E ok \in BOOLEAN : WriteXml(ok)
    \/ \E ok \in BOOLEAN : WriteNmap(ok)
    \/ \E ok \in BOOLEAN : WriteGnmap(ok)
    \/ Finish

WorkerStep(t) ==
    /\ t \in Tasks
    /\ \/ StartScan(t)
       \/ CountActive(t)
       \/ \E o \in Outcomes : ProbeReturn(t, o)
       \/ EnterFinally(t)
       \/ Cleanup(t)

RunNext ==
    \/ MainStep
    \/ \E t \in TaskIds : WorkerStep(t)

RunSpec ==
    /\ Init
    /\ [][RunNext]_vars
    /\ WF_vars(MainStep)
    /\ \A t \in TaskIds : WF_vars(WorkerStep(t))

----------------------------------------------------------------------------
(* The constructor on its own: main() is about to check the thread count    *)
(* and build the scanner for a range drawn from ResolveRanges               *)

\* 10.0.0.x and 10.20.30.4x under short and long prefixes, and prefix 33
ResolveRanges ==
    {[addr |-> b + a, plen |-> p] :
        b \in {BaseAddr, BaseAddr + 20 * Pow2(16) + 30 * Pow2(8) + 40},
        a \in 0..(Pow2(MaxHostBits) - 1),
        p \in {8, 16, 24} \cup
              ((MaxPrefixLen - MaxHostBits)..(MaxPrefixLen + 1))}

ResolveInit ==
    /\ threads \in ThreadInputs
    /\ target_range \in ResolveRanges
    /\ total_hosts = 0
    /\ output_base = <<>>
    /\ pc = "main"
    /\ inHandler = FALSE
    /\ exitCode = -1
    /\ live_hosts = <<>>
    /\ task = <<>>
    /\ outcome = <<>>
    /\ slept = <<>>
    /\ active_scans = 0
    /\ completed_scans = 0
    /\ lock = 0
    /\ loaded = <<>>
    /\ results_queue = <<>>
    /\ all_results = <<>>
    /\ xml = Old
    /\ nmap = Old
    /\ gnmap = Old
    /\ save_error = FALSE
    /\ saveCalls = 0
    /\ drains = 0
    /\ putsSinceDrain = 0
    /\ nmapRuns = 0
    /\ recorded = <<>>
    /\ interrupts = 0
    /\ recAtInt = <<>>
    /\ nmap_installed = "unknown"
    /\ sweep = "none"

ResolveNext == Main

ResolveSpec == ResolveInit /\ [][ResolveNext]_vars

----------------------------------------------------------------------------
(* Claims *)

Limit == Min(threads, Len(live_hosts))

InFlight == {t \in Tasks : task[t] = "probe"}

\* C1: the number of detailed probes in flight and the active_scans counter
\* stay between 0 and min(L, H), L the thread limit and H the number of
\* live hosts
Thm_C1_BoundedConcurrency ==
    /\ active_scans >= 0
    /\ active_scans <= Limit
    /\ Cardinality(InFlight) <= Limit

\* the limit binds: one worker allowed, one probe in flight, one host waiting
Wit_C1_LimitBinds ==
    /\ threads = 1
    /\ Len(live_hosts) = 2
    /\ active_scans = 1
    /\ task[1] = "probe"
    /\ task[2] = "queued"

\* C2: on a run that is not interrupted, save_results is entered only after
\* every host task has ended: completed_scans equals the number of live
\* hosts and active_scans is 0
Thm_C2_JoinBeforeSave ==
    (interrupts = 0 /\ saveCalls >= 1) =>
        /\ completed_scans = Len(live_hosts)
        /\ active_scans = 0
        /\ \A t \in Tasks : task[t] = "done"

\* save_results entered after one host timed out and the other had open ports
Wit_C2_MixedOutcomes ==
    /\ interrupts = 0
    /\ pc = "drain"
    /\ Len(live_hosts) = 2
    /\ outcome[1] = "timeout"
    /\ outcome[2] = "open_tcp"
    /\ completed_scans = 2

Written(f) == IF f = Old THEN <<>> ELSE f

\* C3: after a single interrupt that arrived during the detailed scans, the
\* files written by the handler's save_results hold exactly the results
\* recorded before that interrupt
Cex_C3_PartialSaveExact ==
    (/\ pc = "exited"
     /\ interrupts = 1
     /\ inHandler
     /\ saveCalls = 1
     /\ Len(live_hosts) > 0
     /\ ~save_error)
    => /\ Written(xml) = HostsOf(recAtInt)
       /\ Written(nmap) = HostsOf(recAtInt)

\* C4: once an interrupt has arrived, no queued host task is taken up by a
\* worker to start its probe
Cex_C4_NoStartAfterInterrupt ==
    [][interrupts > 0 =>
         \A t \in Tasks : ~(task[t] = "queued" /\ task'[t] # "queued")]_vars

Cex_C6_SaveExactlyOnce ==
    (pc = "exited" /\ Len(live_hosts) > 0 /\ interrupts <= 1) =>
        saveCalls = 1

\* C7: a save_results call that starts after a completed drain, with no
\* result put in between, finds the queue empty and collects nothing
Thm_C7_SecondDrainEmpty ==
    (pc = "drain" /\ drains >= 1 /\ putsSinceDrain = 0) =>
        (results_queue = <<>> /\ all_results = <<>>)

\* a second drain ran to its end with nothing, after the first had
\* delivered a result to the files
Wit_C7_SecondDrainRan ==
    /\ drains = 2
    /\ saveCalls = 2
    /\ all_results = <<>>
    /\ recorded # <<>>
    /\ xml # Old

Count(s, x) == Cardinality({i \in DOMAIN s : s[i] = x})

\* C8: a host task is recorded exactly once when its nmap run returned 0
\* with 'open' in its output and not at all otherwise; after an
\* uninterrupted run whose writes succeeded the xml and nmap files list
\* exactly the recorded hosts and the gnmap file lists no other host
Thm_C8_RecordedIffOpen ==
    /\ \A t \in Tasks :
          Count(recorded, t) =
              IF outcome[t] \in {"open_tcp", "open_text"} THEN 1 ELSE 0
    /\ (pc = "exited" /\ interrupts = 0 /\ ~save_error /\ saveCalls = 1) =>
          /\ Written(xml) = HostsOf(recorded)
          /\ Written(nmap) = HostsOf(recorded)
          /\ Range(Written(gnmap)) \subseteq Range(HostsOf(recorded))

\* 10.0.0.1 has 80/tcp open, 10.0.0.2 has nothing open: one result, for .1
Wit_C8_OneOpenOneClosed ==
    /\ pc = "exited"
    /\ exitCode = 0
    /\ live_hosts = <<BaseAddr + 1, BaseAddr + 2>>
    /\ outcome = <<"open_tcp", "closed">>
    /\ recorded = <<1>>
    /\ xml = <<BaseAddr + 1>>
    /\ nmap = <<BaseAddr + 1>>
    /\ gnmap = <<BaseAddr + 1>>

FellBack == sweep \in {"timeout", "failed"}

AllAddresses(r) == NetworkAddress(r)..BroadcastAddress(r)

\* C9 as claimed: after a sweep that timed out or failed, live_hosts is
\* non-empty and holds every address of the range except the network and
\* broadcast addresses
Cex_C9_FallbackExcludesNetBcast ==
    FellBack =>
        /\ live_hosts # <<>>
        /\ Range(live_hosts) =
              AllAddresses(target_range)
                 \ {NetworkAddress(target_range),
                    BroadcastAddress(target_range)}

\* C9 as amended: after a sweep that timed out or failed, ping_sweep has
\* returned (run_scan goes on to dispatch) a non-empty ascending list: every
\* address except the network and broadcast addresses for a prefix of 30 or
\* less, every address of the range for a /31 or a /32
Thm_C9_FallbackHosts ==
    FellBack =>
        /\ pc = "submit"
        /\ live_hosts # <<>>
        /\ \A i \in DOMAIN live_hosts :
              i > 1 => live_hosts[i - 1] < live_hosts[i]
        /\ Range(live_hosts) =
              IF target_range.plen <= 30
              THEN AllAddresses(target_range)
                      \ {NetworkAddress(target_range),
                         BroadcastAddress(target_range)}
              ELSE AllAddresses(target_range)

\* the sweep of a /31 timed out: both addresses of the range are candidates
Wit_C9_FallbackSlash31 ==
    /\ sweep = "timeout"
    /\ target_range.plen = 31
    /\ Len(live_hosts) = 2
    /\ live_hosts[1] = NetworkAddress(target_range)

\* C10: a thread count outside 1..200 ends the run with a non-zero exit
\* code before nmap is run, before any host task exists and before
\* save_results or any file write
Thm_C10_BadThreadsRejected ==
    (threads < 1 \/ threads > 200) =>
        /\ pc \in {"main", "exited"}
        /\ pc = "exited" => exitCode = 1
        /\ nmapRuns = 0
        /\ live_hosts = <<>>
        /\ task = <<>>
        /\ saveCalls = 0
        /\ xml = Old /\ nmap = Old /\ gnmap = Old

\* a run asked for 201 threads has exited with 1 without running nmap
Wit_C10_Rejected ==
    /\ threads = 201
    /\ pc = "exited"
    /\ exitCode = 1
    /\ nmapRuns = 0

MainStepped == pc' # pc /\ interrupts' = interrupts

\* C11: when the write of one output format has failed, or succeeded, the
\* next format is still attempted: after the xml step comes the nmap step
\* and after the nmap step the gnmap step, unless an interrupt arrives
Cex_C11_FormatsIndependent ==
    [][/\ (pc = "write_xml" /\ MainStepped) => pc' = "write_nmap"
       /\ (pc = "write_nmap" /\ MainStepped) => pc' = "write_gnmap"]_vars

\* C12: save_results goes on to the writes only with a non-empty list, so a
\* file this run has written lists at least one host (gnmap, written last,
\* may list none, but only after xml and nmap were written), and a call
\* that drained nothing reports no write error
Thm_C12_NothingToSave ==
    /\ pc \in {"write_xml", "write_nmap", "write_gnmap"} =>
          all_results # <<>>
    /\ xml # Old => xml # <<>>
    /\ nmap # Old => (nmap # <<>> /\ xml # Old)
    /\ gnmap # Old => nmap # Old
    /\ recorded = <<>> =>
          (~save_error /\ xml = Old /\ nmap = Old /\ gnmap = Old)

\* an interrupted scan whose host had nothing open: the handler's
\* save_results drained nothing, wrote nothing, and the process exited
Wit_C12_InterruptedEmpty ==
    /\ pc = "exited"
    /\ exitCode = 1
    /\ interrupts = 1
    /\ saveCalls = 1
    /\ drains = 1
    /\ Len(live_hosts) = 1
    /\ outcome[1] = "closed"
    /\ xml = Old /\ nmap = Old /\ gnmap = Old
    /\ ~save_error

\* the addresses within 2^MaxHostBits of r.addr that agree with it on the
\* leading r.plen bits
MemberAddresses(r) ==
    {a \in (r.addr - Pow2(MaxHostBits))..(r.addr + Pow2(MaxHostBits)) :
        a \div 2^(MaxPrefixLen - r.plen) =
            r.addr \div 2^(MaxPrefixLen - r.plen)}

\* C13: once the scanner is built for a valid range, total_hosts is
\* 2^(32 - prefix length), which for a range of at most 2^MaxHostBits
\* addresses is the number of addresses sharing the prefix, and output_base
\* is the range text with its separators replaced, "-network" appended, and
\* holds neither a slash nor a backslash
Thm_C13_CountAndBaseName ==
    (pc # "main" /\ ValidThreads(threads) /\ ValidRange(target_range)) =>
        /\ total_hosts = 2^(MaxPrefixLen - target_range.plen)
        /\ target_range.plen >= MaxPrefixLen - MaxHostBits =>
              total_hosts = Cardinality(MemberAddresses(target_range))
        /\ Len(output_base) = Len(RangeText(target_range)) + 8
        /\ "/" \notin Range(output_base)
        /\ "\\" \notin Range(output_base)

\* the scanner was built for 10.20.30.41/24: 256 addresses, base name
\* 10-20-30-41_24-network
Wit_C13_Slash24 ==
    /\ pc = "check_nmap"
    /\ target_range = [addr |-> BaseAddr + 20 * Pow2(16) + 30 * Pow2(8) + 41,
                       plen |-> 24]
    /\ total_hosts = 256
    /\ output_base = <<"1", "0", "-", "2", "0", "-", "3", "0", "-", "4", "1",
                       "_", "2", "4", "-", "n", "e", "t", "w", "o", "r", "k">>

\* C14: a worker that has got its probe call back, with any outcome, has
\* slept for the delay by the time it reaches the counter update
Cex_C14_SleepAfterEveryProbe ==
    \A t \in Tasks : task[t] \in {"cleanup", "dec", "done"} => slept[t]

\* the tasks whose detailed nmap run has been started
Started == {t \in Tasks : outcome[t] # "pending" \/ task[t] = "probe"}

\* C15: on a run without interrupt, once run_scan has moved on to
\* save_results every task of the live-host list has run its probe to an
\* outcome and finished, one nmap run per task on top of the check and the
\* sweep, whatever the other tasks' outcomes were; at no time has a task
\* been probed twice
Thm_C15_EveryHostProbedOnce ==
    /\ sweep # "none" => nmapRuns = 2 + Cardinality(Started)
    /\ (interrupts = 0 /\ saveCalls >= 1) =>
          /\ \A t \in Tasks : task[t] = "done" /\ outcome[t] # "pending"
          /\ completed_scans = Len(live_hosts)
          /\ nmapRuns = 2 + Len(live_hosts)

\* an uninterrupted run of two hosts ended with exit 0 although the first
\* probe raised an error; the second was still probed and recorded
Wit_C15_ErrorThenOpen ==
    /\ pc = "exited"
    /\ exitCode = 0
    /\ interrupts = 0
    /\ Len(live_hosts) = 2
    /\ outcome[1] = "error"
    /\ outcome[2] = "open_tcp"
    /\ nmapRuns = 4

\* C16: the process has exited after an interrupted scan whose only
\* save_results call, the handler's, ran to its end (it found nothing to
\* save or wrote its last file) without a write error, and every worker
\* has finished: every result put on the queue was drained and written, and
\* the queue is empty
Cex_C16_NoResultLeftBehind ==
    (/\ pc = "exited"
     /\ saveCalls = 1
     /\ inHandler
     /\ drains = 1
     /\ all_results = <<>> \/ gnmap # Old
     /\ ~save_error
     /\ \A t \in Tasks : task[t] \in {"unsubmitted", "done"}) =>
        /\ results_queue = <<>>
        /\ \A i \in DOMAIN recorded : HostOf(recorded[i]) \in Written(xml)

\* C17: the lock is held only by a task inside one of the two with blocks,
\* never by one whose probe is running, and by one task at a time;
\* active_scans is the number of tasks that have stored their increment and
\* not yet their decrement, completed_scans the number of tasks whose
\* finally block has run, and completed_scans never decreases
Thm_C17_CountersExact ==
    /\ [](/\ \A t \in Tasks : task[t] \in {"inc", "dec"} <=> lock = t
          /\ active_scans =
                Cardinality({t \in Tasks :
                                task[t] \in {"probe", "cleanup", "dec"}})
          /\ completed_scans =
                Cardinality({t \in Tasks : task[t] = "done"}))
    /\ [][completed_scans' >= completed_scans]_vars

\* two workers: the second holds the lock for its increment while the
\* first worker's probe is running
Wit_C17_LockedBesideProbe ==
    /\ Len(live_hosts) = 2
    /\ task[1] = "probe"
    /\ task[2] = "inc"
    /\ lock = 2
    /\ active_scans = 1
    /\ loaded[2] = <<1, 0>>

\* C18: the list a reporting sweep returns holds no address twice
Cex_C18_NoDuplicateHosts ==
    sweep = "report" =>
        \A i, j \in DOMAIN live_hosts :
            i # j => live_hosts[i] # live_hosts[j]

\* C19: until ping_sweep has returned there is no host task and no nmap run
\* besides the version check; when nmap is unavailable or ping_sweep has
\* returned an empty list, and no interrupt has arrived, the process has
\* exited with 1 without a host task, a detailed nmap run or a call of
\* save_results
Thm_C19_DiscoveryGates ==
    /\ sweep = "none" => (task = <<>> /\ nmapRuns <= 1)
    /\ (/\ interrupts = 0
        /\ \/ nmap_installed \in {"no", "oserror"}
           \/ (sweep # "none" /\ live_hosts = <<>>)) =>
          /\ pc = "exited"
          /\ exitCode = 1
          /\ task = <<>>
          /\ nmapRuns <= 2
          /\ saveCalls = 0
          /\ xml = Old /\ nmap = Old /\ gnmap = Old

\* the sweep ran and reported no host: exit 1, nothing probed or saved
Wit_C19_EmptySweep ==
    /\ sweep = "report"
    /\ live_hosts = <<>>
    /\ pc = "exited"
    /\ exitCode = 1
    /\ nmapRuns = 2
    /\ saveCalls = 0

\* C20: without interrupt and under fair scheduling the process eventually
\* exits, and when the sweep gave live hosts it exits with every host task
\* completed, the lock free, and save_results run once to the end of its
\* drain
Thm_C20_RunTerminates ==
    <>(/\ pc = "exited"
       /\ live_hosts # <<>> =>
             /\ \A t \in Tasks : task[t] = "done"
             /\ completed_scans = Len(live_hosts)
             /\ active_scans = 0
             /\ lock = 0
             /\ saveCalls = 1
             /\ drains = 1
             /\ exitCode = 0)

\* a run of two hosts ended with exit 0 after one probe timed out and the
\* other found nothing open
Wit_C20_TimeoutThenClosed ==
    /\ pc = "exited"
    /\ exitCode = 0
    /\ Len(live_hosts) = 2
    /\ outcome[1] = "timeout"
    /\ outcome[2] = "closed"
    /\ completed_scans = 2
    /\ saveCalls = 1

====
